---- MODULE Spec2Model ----
(***************************************************************************)
(* A model of src/src/AprilTagNode.cpp: the AprilTagNode constructor and   *)
(* destructor, the camera callback onCamera, the parameter callback        *)
(* onParameter and the pose function getPose.                              *)
(*                                                                         *)
(* Three specifications share the definitions below:                       *)
(*   Spec      a constructed node; one thread runs onCamera, another runs  *)
(*             onParameter, interleaved at the granularity of the shared   *)
(*             reads and writes (the atomics, the mutex, the detector);    *)
(*   SpecLife  the constructor, step by step, and the destructor;          *)
(*   SpecCfg   onParameter alone, called with a fixed vector of parameters *)
(*             and then called again with the same vector.                 *)
(*                                                                         *)
(* Numbers of type double/float are modelled by exact integers and exact   *)
(* rationals; the inputs are chosen so that every square root is exact.    *)
(***************************************************************************)
EXTENDS Integers, Sequences, FiniteSets, TLC

----------------------------------------------------------------------------
(* Bounds of the model *)

\* the detector returns at most MaxDets detections for one frame
MaxDets == 2
\* the lists tag.ids, tag.frames, tag.sizes have at most MaxList elements
MaxList == 2
\* onParameter is called with at most MaxBatch parameters (SpecCfg)
MaxBatch == 2

----------------------------------------------------------------------------
(* State *)

VARIABLES
    life,            \* where the node is in its life: constructor steps, "running", "failed", "destroyed"
    args,            \* the read-only parameters the constructor reads (lines 144-150)
    res,             \* the detector td and the family tf: "none", "live" or "freed", and how often each was freed
    td,              \* the fields of *td that onParameter writes and detection reads
    max_hamming,     \* std::atomic<int>
    profile,         \* std::atomic<bool>
    z_up,            \* std::atomic<bool>
    enabled,         \* std::atomic<bool>
    tag_edge_size,   \* double
    tag_frames,      \* unordered_map<int, string>, as a function on the set of its keys
    tag_sizes,       \* unordered_map<int, double>
    mutex,           \* std::mutex: "free", or the holder "cam" / "par"
    par,             \* the thread in onParameter: its position and the result of the last call
    cam,             \* the thread in onCamera: its position, loop index and what the frame did
    Pinv,            \* onCamera's local Pinv
    detections,      \* onCamera's local zarray of detections
    msg_detections,  \* onCamera's local msg_detections.detections
    tfs,             \* onCamera's local tfs
    hist,            \* per loop iteration of the frame: what the iteration read and decided
    out,             \* the batches the current frame has published: [det, tf] counts
    replay           \* what onParameter was called with (see Spec and SpecCfg)

vars == <<life, args, res, td, max_hamming, profile, z_up, enabled, tag_edge_size,
          tag_frames, tag_sizes, mutex, par, cam, Pinv, detections, msg_detections,
          tfs, hist, out, replay>>

cfgvars   == <<td, max_hamming, profile, z_up, enabled>>
tagvars   == <<tag_edge_size, tag_frames, tag_sizes>>
lifevars  == <<life, args, res>>
camvars   == <<cam, Pinv, detections, msg_detections, tfs, hist, out>>

----------------------------------------------------------------------------
(* Small helpers *)

Range(s) == {s[i] : i \in 1..Len(s)}

SeqsUpTo(S, n) == UNION {[1..k -> S] : k \in 0..n}

Abs(x) == IF x < 0 THEN -x ELSE x

Sgn(x) == IF x < 0 THEN -1 ELSE IF x = 0 THEN 0 ELSE 1

RECURSIVE Gcd(_, _)
Gcd(a, b) == IF b = 0 THEN a ELSE Gcd(b, a % b)

\* the empty map
EmptyMap == [k \in {} |-> 0]

----------------------------------------------------------------------------
(* The configuration onParameter writes *)

\* the parameter names of lines 290-299, in the order the IF chain tests them
Recognized ==
    <<"detector.threads", "detector.decimate", "detector.blur", "detector.refine",
      "detector.sharpening", "detector.debug", "max_hamming", "profile", "z_up",
      "enabled">>

DetectorKeys == {Recognized[i] : i \in 1..6}

AtomicKeys == {Recognized[i] : i \in 7..10}

\* the values of *td after apriltag_detector_create() (line 136): the library's
\* defaults, which lines 153-158 declare as the parameters' defaults.
\* quad_decimate, quad_sigma and decode_sharpening are floats, in units of 1/4.
td_create ==
    [nthreads |-> 1, quad_decimate |-> 8, quad_sigma |-> 0, refine_edges |-> TRUE,
     decode_sharpening |-> 1, debug |-> FALSE]

\* the configuration as one record
Cfg ==
    [td |-> td, max_hamming |-> max_hamming, profile |-> profile, z_up |-> z_up,
     enabled |-> enabled]

\* the declared defaults of lines 153-163
declared ==
    [td |-> td_create, max_hamming |-> 0, profile |-> FALSE, z_up |-> TRUE,
     enabled |-> FALSE]

\* A parameter is [name, value]; its value is tagged with its type, as
\* rclcpp::ParameterValue is: [int |-> n], [double |-> x], [bool |-> b] or
\* [string |-> s]. The floats are in units of 1/4.
Tagged(type, S) == {[t \in {type} |-> v] : v \in S}

\* the type T of the variable lines 290-299 assign the parameter to
TypeOf(name) ==
    CASE name \in {"detector.threads", "max_hamming"} -> "int"
      [] name \in {"detector.decimate", "detector.blur", "detector.sharpening"} -> "double"
      [] OTHER -> "bool"

\* the values a parameter of a given name can carry
ValuesOf(name) ==
    CASE name = "detector.threads" -> Tagged("int", {1, 2})
      [] name = "detector.decimate" -> Tagged("double", {4, 8})
      [] name = "detector.blur" -> Tagged("double", {0, 3})
      [] name = "detector.sharpening" -> Tagged("double", {1, 2})
      [] name = "max_hamming" -> Tagged("int", {0, 1})
      [] OTHER -> Tagged("bool", BOOLEAN)

UpdatesOf(names) ==
    UNION {{[name |-> n, value |-> v] : v \in ValuesOf(n)} : n \in names}

\* parameters whose value has another type than the variable of their name
IllTyped(names) == {[name |-> n, value |-> [string |-> "on"]] : n \in names}

\* a name that is none of the ten: the read-only parameter "size"
Unrecognized == [name |-> "size", value |-> [double |-> 4]]

\* parameter.get_value<T>() (lines 26, 32) throws unless the value has type T
get_value_throws(u, T) == DOMAIN u.value # {T}

get_value(u, T) == u.value[T]

\* a bug: the parameter's value is added to an integer variable
assign_adds(var, u, T) == IF T = "int" THEN var + get_value(u, T) ELSE get_value(u, T)

\* lines 23-33: assign:  var = parameter.get_value<T>(),  the new value of var
assign(var, u, T) == get_value(u, T)

\* lines 35-44: assign_check matches the parameter's name against one key
assign_check(u, name) == u.name = name

\* a bug: a copied line of the IF chain kept the variable of the line it was
\* copied from, IF("z_up", enabled)
onParameterBody_z_up_writes_enabled(c, u) ==
    IF assign_check(u, "detector.threads")
      THEN [c EXCEPT !.td.nthreads = assign(@, u, "int")]
    ELSE IF assign_check(u, "detector.decimate")
      THEN [c EXCEPT !.td.quad_decimate = assign(@, u, "double")]
    ELSE IF assign_check(u, "detector.blur")
      THEN [c EXCEPT !.td.quad_sigma = assign(@, u, "double")]
    ELSE IF assign_check(u, "detector.refine")
      THEN [c EXCEPT !.td.refine_edges = assign(@, u, "bool")]
    ELSE IF assign_check(u, "detector.sharpening")
      THEN [c EXCEPT !.td.decode_sharpening = assign(@, u, "double")]
    ELSE IF assign_check(u, "detector.debug")
      THEN [c EXCEPT !.td.debug = assign(@, u, "bool")]
    ELSE IF assign_check(u, "max_hamming")
      THEN [c EXCEPT !.max_hamming = assign(@, u, "int")]
    ELSE IF assign_check(u, "profile")
      THEN [c EXCEPT !.profile = assign(@, u, "bool")]
    ELSE IF assign_check(u, "z_up")
      THEN [c EXCEPT !.enabled = assign(@, u, "bool")]
    ELSE IF assign_check(u, "enabled")
      THEN [c EXCEPT !.enabled = assign(@, u, "bool")]
    ELSE c

\* lines 290-299: one iteration of the loop body for a parameter that does not
\* throw: the first IF whose name matches assigns, the others are skipped
onParameterBody(c, u) ==
    IF assign_check(u, "detector.threads")
      THEN [c EXCEPT !.td.nthreads = assign(@, u, "int")]
    ELSE IF assign_check(u, "detector.decimate")
      THEN [c EXCEPT !.td.quad_decimate = assign(@, u, "double")]
    ELSE IF assign_check(u, "detector.blur")
      THEN [c EXCEPT !.td.quad_sigma = assign(@, u, "double")]
    ELSE IF assign_check(u, "detector.refine")
      THEN [c EXCEPT !.td.refine_edges = assign(@, u, "bool")]
    ELSE IF assign_check(u, "detector.sharpening")
      THEN [c EXCEPT !.td.decode_sharpening = assign(@, u, "double")]
    ELSE IF assign_check(u, "detector.debug")
      THEN [c EXCEPT !.td.debug = assign(@, u, "bool")]
    ELSE IF assign_check(u, "max_hamming")
      THEN [c EXCEPT !.max_hamming = assign(@, u, "int")]
    ELSE IF assign_check(u, "profile")
      THEN [c EXCEPT !.profile = assign(@, u, "bool")]
    ELSE IF assign_check(u, "z_up")
      THEN [c EXCEPT !.z_up = assign(@, u, "bool")]
    ELSE IF assign_check(u, "enabled")
      THEN [c EXCEPT !.enabled = assign(@, u, "bool")]
    ELSE c

\* the iteration throws: the name matches a key and the value has another type
onParameterThrows(u) ==
    \E i \in 1..Len(Recognized) :
        assign_check(u, Recognized[i]) /\ get_value_throws(u, TypeOf(Recognized[i]))

SetCfg(c) ==
    /\ td' = c.td
    /\ max_hamming' = c.max_hamming
    /\ profile' = c.profile
    /\ z_up' = c.z_up
    /\ enabled' = c.enabled

----------------------------------------------------------------------------
(* onParameter, lines 279-307 *)

\* a bug: a lock that never waits
mutex_lock_unguarded == TRUE

\* the guard of mutex.lock(): the call returns only when the mutex is free
mutex_lock_ready == mutex = "free"

\* the callback is entered (line 282); the thread is about to lock
ParamEnter ==
    /\ life = "running"
    /\ par.pc = "idle"
    /\ par' = [pc |-> "lock", result |-> "none"]
    /\ UNCHANGED <<lifevars, cfgvars, tagvars, mutex, camvars>>

\* a bug: the loop is entered without mutex.lock()
ParamLock_without_mutex ==
    /\ par.pc = "lock"
    /\ par' = [par EXCEPT !.pc = "loop"]
    /\ UNCHANGED <<lifevars, cfgvars, tagvars, mutex, camvars>>

\* line 284: mutex.lock()
ParamLock ==
    /\ par.pc = "lock"
    /\ mutex_lock_ready
    /\ mutex' = "par"
    /\ par' = [par EXCEPT !.pc = "loop"]
    /\ UNCHANGED <<lifevars, cfgvars, tagvars, camvars>>

\* lines 286-300: one iteration, for the parameter u. A throwing assign leaves
\* onParameter by the exception: line 302 does not run and the mutex stays locked.
ParamStep(u) ==
    /\ par.pc = "loop"
    /\ IF onParameterThrows(u)
         THEN /\ par' = [pc |-> "idle", result |-> "threw"]
              /\ UNCHANGED cfgvars
         ELSE /\ SetCfg(onParameterBody(Cfg, u))
              /\ UNCHANGED par
    /\ UNCHANGED <<lifevars, tagvars, mutex, camvars>>

\* lines 302-306: the loop is over: unlock, report success
ParamReturn ==
    /\ par.pc = "loop"
    /\ mutex' = "free"
    /\ par' = [pc |-> "idle", result |-> "successful"]
    /\ UNCHANGED <<lifevars, cfgvars, tagvars, camvars>>

----------------------------------------------------------------------------
(* getPose, lines 59-94 *)

\* A 3x3 matrix is a tuple of three rows of integers. A real vector is
\* [v |-> <<x, y, z>>, d |-> n] for (x/n, y/n, z/n) with n > 0 in lowest terms;
\* d = 0 stands for a vector of non-finite doubles (inf or NaN in every entry).
\* A real matrix with a common denominator is [num |-> matrix, den |-> n].

Col(M, j) == <<M[1][j], M[2][j], M[3][j]>>

MatMul(A, B) ==
    [i \in 1..3 |-> [j \in 1..3 |-> A[i][1] * B[1][j] + A[i][2] * B[2][j] + A[i][3] * B[3][j]]]

Det3(M) ==
    M[1][1] * (M[2][2] * M[3][3] - M[2][3] * M[3][2])
    - M[1][2] * (M[2][1] * M[3][3] - M[2][3] * M[3][1])
    + M[1][3] * (M[2][1] * M[3][2] - M[2][2] * M[3][1])

\* the adjugate: the transposed matrix of cofactors
Adj3(M) ==
    <<  <<M[2][2] * M[3][3] - M[2][3] * M[3][2],
          M[1][3] * M[3][2] - M[1][2] * M[3][3],
          M[1][2] * M[2][3] - M[1][3] * M[2][2]>>,
        <<M[2][3] * M[3][1] - M[2][1] * M[3][3],
          M[1][1] * M[3][3] - M[1][3] * M[3][1],
          M[1][3] * M[2][1] - M[1][1] * M[2][3]>>,
        <<M[2][1] * M[3][2] - M[2][2] * M[3][1],
          M[1][2] * M[3][1] - M[1][1] * M[3][2],
          M[1][1] * M[2][2] - M[1][2] * M[2][1]>>  >>

SqNorm(x) == x[1] * x[1] + x[2] * x[2] + x[3] * x[3]

\* the exact square root of a perfect square
Sqrt(s) == CHOOSE r \in 0..s : r * r = s

Cross(a, b) ==
    <<a[2] * b[3] - a[3] * b[2], a[3] * b[1] - a[1] * b[3], a[1] * b[2] - a[2] * b[1]>>

NonFinite == [v |-> <<0, 0, 0>>, d |-> 0]

\* the vector x/n in lowest terms, n > 0
Reduce(x, n) ==
    LET g == Gcd(Gcd(Gcd(Abs(x[1]), Abs(x[2])), Abs(x[3])), n)
    IN  [v |-> <<x[1] \div g, x[2] \div g, x[3] \div g>>, d |-> n \div g]

Neg(r) == [r EXCEPT !.v = <<-r.v[1], -r.v[2], -r.v[3]>>]

\* Eigen's fixed-size 3x3 inverse(): the cofactors times 1/determinant; with a
\* zero determinant every entry is a cofactor times inf
Inverse3(M) == [num |-> Adj3(M), den |-> Det3(M)]

\* Eigen's normalized() of column j of T: the column over its norm, and the
\* column itself when its squared norm is not > 0
normalized(T, j) ==
    LET x == Col(T.num, j)
        s == Sqrt(SqNorm(x))
    IN  IF T.den = 0 THEN NonFinite
        ELSE IF s = 0 THEN [v |-> <<0, 0, 0>>, d |-> 1]
        ELSE Reduce(<<x[1] * Sgn(T.den), x[2] * Sgn(T.den), x[3] * Sgn(T.den)>>, s)

\* line 72: R.col(0).cross(R.col(1))
cross(a, b) ==
    IF a.d = 0 \/ b.d = 0 THEN NonFinite ELSE Reduce(Cross(a.v, b.v), a.d * b.d)

\* line 83: T.rightCols<1>() / ((T.col(0).norm() + T.col(0).norm()) / 2.0) * (size / 2.0).
\* With T = num/den and n0 the norm of num's column 0, the norms are n0/|den|, so
\* the quotient is  col2 * sgn(den) * size / (n0 + n0);  a zero den or n0 divides by 0.
translation(T, size) ==
    LET x == Col(T.num, 3)
        n0 == Sqrt(SqNorm(Col(T.num, 1)))
        k == Sgn(T.den) * size
    IN  IF T.den = 0 \/ n0 + n0 = 0 THEN NonFinite
        ELSE Reduce(<<x[1] * k, x[2] * k, x[3] * k>>, n0 + n0)

\* a bug: z_up negates column 1 of R only
getPose_flips_one_column(H, Pi, size, zup) ==
    LET T == [num |-> MatMul(Pi.num, H), den |-> Pi.den]
        c0 == normalized(T, 1)
        c1 == normalized(T, 2)
        c2 == cross(c0, c1)
    IN  [translation |-> translation(T, size),
         rotation |-> IF zup THEN <<c0, Neg(c1), c2>> ELSE <<c0, c1, c2>>]

\* lines 59-94. The rotation is given by its matrix R (columns c0, c1, c2); the
\* conversion of R to a quaternion (line 85) is not modelled.
getPose(H, Pi, size, zup) ==
    LET T == [num |-> MatMul(Pi.num, H), den |-> Pi.den]
        c0 == normalized(T, 1)
        c1 == normalized(T, 2)
        c2 == cross(c0, c1)
    IN  [translation |-> translation(T, size),
         rotation |-> IF zup THEN <<c0, Neg(c1), Neg(c2)>> ELSE <<c0, c1, c2>>]

\* a pose with a non-finite entry, or whose R has a zero column (no rotation)
Degenerate(t) ==
    \/ t.translation.d = 0
    \/ \E j \in 1..3 : t.rotation[j].d = 0 \/ t.rotation[j].v = <<0, 0, 0>>

----------------------------------------------------------------------------
(* The constructor, lines 132-200, and the destructor, lines 202-206 *)

\* the keys of tag_create / tag_destroy (tag_functions.hpp)
tag_create == {"36h11"}

\* the name the family object carries (det->family->name)
family_name(f) == "tag" \o f

\* lines 171-174, 184-187: the loop  m[ids[i]] = vals[i]; a repeated id keeps
\* the value of its last position
ZipMap(ids, vals) ==
    [k \in Range(ids) |->
        vals[CHOOSE i \in 1..Len(ids) : ids[i] = k /\ \A j \in (i + 1)..Len(ids) : ids[j] # k]]

\* a bug: only too few frames are refused
frames_mismatch_too_few(a) == a.frames # <<>> /\ Len(a.ids) > Len(a.frames)

\* lines 165-170: the frames are given and their number is not the number of ids
frames_mismatch(a) == a.frames # <<>> /\ Len(a.ids) # Len(a.frames)

\* lines 177-183
sizes_mismatch(a) == a.sizes # <<>> /\ Len(a.ids) # Len(a.sizes)

\* line 190
family_supported(a) == a.family \in tag_create

frames_of(a) == IF a.frames # <<>> THEN ZipMap(a.ids, a.frames) ELSE EmptyMap

sizes_of(a) == IF a.sizes # <<>> THEN ZipMap(a.ids, a.sizes) ELSE EmptyMap

NoRes == [td |-> "none", tf |-> "none", td_frees |-> 0, tf_frees |-> 0]

\* lines 132-141, the member initializers: td(apriltag_detector_create()), enabled(false)
CtorInit ==
    /\ life = "new"
    /\ life' = "declare"
    /\ res' = [res EXCEPT !.td = "live"]
    /\ td' = td_create
    /\ enabled' = FALSE
    /\ UNCHANGED <<args, max_hamming, profile, z_up, tagvars, mutex, par, camvars, replay>>

\* lines 144-163: the parameters are declared; each takes its declared default
CtorDeclare ==
    /\ life = "declare"
    /\ life' = "frames"
    /\ tag_edge_size' = args.size
    /\ SetCfg(declared)
    /\ UNCHANGED <<args, res, tag_frames, tag_sizes, mutex, par, camvars, replay>>

\* lines 165-175
CtorFrames ==
    /\ life = "frames"
    /\ IF frames_mismatch(args)
         THEN life' = "failed" /\ UNCHANGED tag_frames
         ELSE life' = "sizes" /\ tag_frames' = frames_of(args)
    /\ UNCHANGED <<args, res, cfgvars, tag_edge_size, tag_sizes, mutex, par, camvars, replay>>

\* lines 177-188
CtorSizes ==
    /\ life = "sizes"
    /\ IF sizes_mismatch(args)
         THEN life' = "failed" /\ UNCHANGED tag_sizes
         ELSE life' = "family" /\ tag_sizes' = sizes_of(args)
    /\ UNCHANGED <<args, res, cfgvars, tag_edge_size, tag_frames, mutex, par, camvars, replay>>

\* lines 190-199
CtorFamily ==
    /\ life = "family"
    /\ IF family_supported(args)
         THEN life' = "running" /\ res' = [res EXCEPT !.tf = "live"]
         ELSE life' = "failed" /\ UNCHANGED res
    /\ UNCHANGED <<args, cfgvars, tagvars, mutex, par, camvars, replay>>

\* lines 202-206: the destructor of a constructed node, with no callback running
Destroy ==
    /\ life = "running"
    /\ par.pc = "idle" /\ cam.pc \in {"idle", "done"}
    /\ life' = "destroyed"
    /\ res' = [td |-> "freed", tf |-> "freed",
               td_frees |-> res.td_frees + 1, tf_frees |-> res.tf_frees + 1]
    /\ UNCHANGED <<args, cfgvars, tagvars, mutex, par, camvars, replay>>

----------------------------------------------------------------------------
(* onCamera, lines 208-277 *)

Identity3 == <<<<1, 0, 0>>, <<0, 1, 0>>, <<0, 0, 1>>>>

\* the projection matrices (3x4, row-major) of the frames: a calibrated camera
\* and an uncalibrated one whose CameraInfo is all zero
PSet == {<<<<1, 0, 0, 0>>, <<0, 1, 0, 0>>, <<0, 0, 1, 0>>>>,
         <<<<0, 0, 0, 0>>, <<0, 0, 0, 0>>, <<0, 0, 0, 0>>>>}

\* a detection as zarray_get yields it
Det(id, hamming, H) ==
    [id |-> id, hamming |-> hamming, H |-> H, family |-> family_name(args.family)]

\* the detections the detector returns in a running node: marker 1 (the marker
\* RunArgs configures) decoded with no and with one corrected bit, and marker 2
\* (never configured) with a homography whose first column is zero
DetSet ==
    {Det(1, 0, Identity3), Det(1, 1, Identity3),
     Det(2, 0, <<<<0, 0, 0>>, <<0, 1, 0>>, <<0, 0, 1>>>>)}

\* line 215: leftCols<3>()
leftCols3(P) == [i \in 1..3 |-> <<P[i][1], P[i][2], P[i][3]>>]

NoPinv == Inverse3(Identity3)

IdleCam ==
    [pc |-> "idle", i |-> 0, sawEnabled |-> FALSE, singular |-> FALSE,
     detected |-> FALSE, outcome |-> "none"]

NoHist == [pass |-> 0, used |-> <<>>]

NoOut == [det |-> 0, tf |-> 0]

\* a bug: the test that tag_frames is not empty is missing
untracked_without_empty_test(det) == det.id \notin DOMAIN tag_frames

\* line 240: ignore untracked tags
untracked(det) == DOMAIN tag_frames # {} /\ det.id \notin DOMAIN tag_frames

\* a bug: the threshold is off by one
rejected_off_by_one(det) == det.hamming > max_hamming + 1

\* line 246: reject detections with more corrected bits than allowed
rejected(det) == det.hamming > max_hamming

\* a bug: the configured name is never used
child_frame_id_generic(det) == det.family \o ":" \o ToString(det.id)

\* line 267: the configured tag name, or the generic one
child_frame_id(det) ==
    IF det.id \in DOMAIN tag_frames THEN tag_frames[det.id]
    ELSE det.family \o ":" \o ToString(det.id)

\* a bug: the size configured for the tag is never used
edge_size_default(det) == tag_edge_size

\* line 268: the size handed to getPose
edge_size(det) ==
    IF det.id \in DOMAIN tag_sizes THEN tag_sizes[det.id] ELSE tag_edge_size

\* lines 252-261
msg_detection(det) ==
    [family |-> det.family, id |-> det.id, hamming |-> det.hamming, homography |-> det.H]

\* lines 264-268
transform_stamped(det) ==
    [child_frame_id |-> child_frame_id(det),
     transform |-> getPose(det.H, Pinv, edge_size(det), z_up)]

\* a bug: the flag is not looked at
camera_enabled_ignored == TRUE

\* line 211: the frame goes on only when enabled is set
camera_enabled == enabled

\* lines 208-220: the callback is entered for a frame with projection matrix P;
\* convertible = toCvShare(msg_img, "mono8") does not throw
CamStart(P, convertible) ==
    /\ life = "running"
    /\ cam.pc \in {"idle", "done"}
    /\ detections' = [size |-> 0]
    /\ msg_detections' = <<>>
    /\ tfs' = <<>>
    /\ hist' = NoHist
    /\ out' = NoOut
    /\ IF ~camera_enabled
         THEN /\ cam' = [IdleCam EXCEPT !.pc = "done", !.outcome = "disabled",
                                         !.sawEnabled = enabled]
              /\ Pinv' = NoPinv
         ELSE /\ Pinv' = Inverse3(leftCols3(P))
              /\ cam' = [IdleCam EXCEPT
                            !.pc = IF convertible THEN "lock" ELSE "done",
                            !.outcome = IF convertible THEN "none" ELSE "threw",
                            !.sawEnabled = enabled,
                            !.singular = (Det3(leftCols3(P)) = 0)]
    /\ UNCHANGED <<lifevars, cfgvars, tagvars, mutex, par, replay>>

\* a bug: the detector is entered without mutex.lock()
CamLock_without_mutex ==
    /\ cam.pc = "lock"
    /\ cam' = [cam EXCEPT !.pc = "detecting"]
    /\ UNCHANGED <<lifevars, cfgvars, tagvars, mutex, par, Pinv, detections,
                   msg_detections, tfs, hist, out, replay>>

\* line 222: mutex.lock(); apriltag_detector_detect is entered
CamLock ==
    /\ cam.pc = "lock"
    /\ mutex_lock_ready
    /\ mutex' = "cam"
    /\ cam' = [cam EXCEPT !.pc = "detecting"]
    /\ UNCHANGED <<lifevars, cfgvars, tagvars, par, Pinv, detections, msg_detections,
                   tfs, hist, out, replay>>

\* a bug: mutex.unlock() is missing after the detector returned
CamDetect_keeps_mutex(n) ==
    /\ cam.pc = "detecting"
    /\ detections' = [size |-> n]
    /\ cam' = [cam EXCEPT !.pc = "profile", !.detected = TRUE]
    /\ UNCHANGED <<lifevars, cfgvars, tagvars, mutex, par, Pinv, msg_detections, tfs,
                   hist, out, replay>>

\* lines 223-224: the detector returns an array of n detections; mutex.unlock().
\* The elements of the array are drawn when the loop reads them (zarray_get).
CamDetect(n) ==
    /\ cam.pc = "detecting"
    /\ detections' = [size |-> n]
    /\ mutex' = "free"
    /\ cam' = [cam EXCEPT !.pc = "profile", !.detected = TRUE]
    /\ UNCHANGED <<lifevars, cfgvars, tagvars, par, Pinv, msg_detections, tfs, hist,
                   out, replay>>

\* lines 226-232
CamProfile ==
    /\ cam.pc = "profile"
    /\ cam' = [cam EXCEPT !.pc = "loop"]
    /\ UNCHANGED <<lifevars, cfgvars, tagvars, mutex, par, Pinv, detections,
                   msg_detections, tfs, hist, out, replay>>

\* the two filters as the text of the claims states them
PassesAllowList(det) == DOMAIN tag_frames = {} \/ det.id \in DOMAIN tag_frames

PassesHamming(det, k) == det.hamming <= k

\* lines 234-271: one iteration of the loop, zarray_get yielding det
CamLoop(det) ==
    /\ cam.pc = "loop"
    /\ cam.i < detections.size
    /\ cam' = [cam EXCEPT !.i = @ + 1]
    /\ IF untracked(det) \/ rejected(det)
         THEN /\ UNCHANGED <<msg_detections, tfs>>
              /\ hist' = [hist EXCEPT
                            !.pass = @ + IF PassesAllowList(det) /\ PassesHamming(det, max_hamming)
                                           THEN 1 ELSE 0]
         ELSE /\ msg_detections' = Append(msg_detections, msg_detection(det))
              /\ tfs' = Append(tfs, transform_stamped(det))
              /\ hist' = [pass |-> hist.pass + IF PassesAllowList(det) /\ PassesHamming(det, max_hamming)
                                                 THEN 1 ELSE 0,
                          used |-> Append(hist.used, [mh |-> max_hamming, z_up |-> z_up,
                                                       size |-> edge_size(det)])]
    /\ UNCHANGED <<lifevars, cfgvars, tagvars, mutex, par, Pinv, detections, out, replay>>

\* a bug: an empty msg_detections is not published
CamPublish_unless_empty ==
    /\ cam.pc = "loop"
    /\ cam.i = detections.size
    /\ out' = [out EXCEPT !.det = IF msg_detections = <<>> THEN @ ELSE @ + 1]
    /\ cam' = [cam EXCEPT !.pc = "send"]
    /\ UNCHANGED <<lifevars, cfgvars, tagvars, mutex, par, Pinv, detections,
                   msg_detections, tfs, hist, replay>>

\* line 273: pub_detections->publish(msg_detections)
CamPublish ==
    /\ cam.pc = "loop"
    /\ cam.i = detections.size
    /\ out' = [out EXCEPT !.det = @ + 1]
    /\ cam' = [cam EXCEPT !.pc = "send"]
    /\ UNCHANGED <<lifevars, cfgvars, tagvars, mutex, par, Pinv, detections,
                   msg_detections, tfs, hist, replay>>

\* lines 274-277: tf_broadcaster.sendTransform(tfs); the detections are destroyed
CamSend ==
    /\ cam.pc = "send"
    /\ out' = [out EXCEPT !.tf = @ + 1]
    /\ cam' = [cam EXCEPT !.pc = "done", !.outcome = "emitted"]
    /\ UNCHANGED <<lifevars, cfgvars, tagvars, mutex, par, Pinv, detections,
                   msg_detections, tfs, hist, replay>>

----------------------------------------------------------------------------
(* Spec: a constructed node with the two callbacks running concurrently.      *)
(* replay.set keeps the value the last completed update gave each detector    *)
(* parameter.                                                                 *)

\* the read-only parameters of the running node
RunArgs ==
    {[ids |-> <<>>, frames |-> <<>>, sizes |-> <<>>, family |-> "36h11", size |-> 1],
     [ids |-> <<1>>, frames |-> <<"marker">>, sizes |-> <<2>>, family |-> "36h11", size |-> 1]}

\* the state the constructor leaves for the arguments a
Constructed(a) ==
    /\ ~frames_mismatch(a) /\ ~sizes_mismatch(a) /\ family_supported(a)
    /\ life = "running"
    /\ args = a
    /\ res = [NoRes EXCEPT !.td = "live", !.tf = "live"]
    /\ td = declared.td
    /\ max_hamming = declared.max_hamming
    /\ profile = declared.profile
    /\ z_up = declared.z_up
    /\ enabled = declared.enabled
    /\ tag_edge_size = a.size
    /\ tag_frames = frames_of(a)
    /\ tag_sizes = sizes_of(a)

\* lines 153-158: the value each detector parameter has at startup
StartupSet ==
    [k \in DetectorKeys |->
        CASE k = "detector.threads" -> declared.td.nthreads
          [] k = "detector.decimate" -> declared.td.quad_decimate
          [] k = "detector.blur" -> declared.td.quad_sigma
          [] k = "detector.refine" -> declared.td.refine_edges
          [] k = "detector.sharpening" -> declared.td.decode_sharpening
          [] k = "detector.debug" -> declared.td.debug]

\* The value the last completed update gave each detector parameter: the
\* parameter u of the vector was assigned (lines 290-295) unless get_value threw.
LastSet(set, u) ==
    IF u.name \in DetectorKeys /\ ~onParameterThrows(u)
      THEN [set EXCEPT ![u.name] = u.value[TypeOf(u.name)]]
      ELSE set

Threads0 ==
    /\ mutex = "free"
    /\ par = [pc |-> "idle", result |-> "none"]
    /\ cam = IdleCam
    /\ Pinv = NoPinv
    /\ detections = [size |-> 0]
    /\ msg_detections = <<>>
    /\ tfs = <<>>
    /\ hist = NoHist
    /\ out = NoOut
    /\ replay = [set |-> StartupSet]

Init == (\E a \in RunArgs : Constructed(a)) /\ Threads0

\* the parameters set while frames are processed: a detector field, the three
\* atomics the frame's filter and pose read, a name that is none of the ten, and
\* a value of the wrong type
ConcUpdates ==
    UpdatesOf({"detector.threads", "max_hamming", "z_up", "enabled"})
        \cup {Unrecognized} \cup IllTyped({"detector.threads"})

Next ==
    \/ ParamEnter /\ UNCHANGED replay
    \/ ParamLock /\ UNCHANGED replay
    \/ \E u \in ConcUpdates :
          ParamStep(u) /\ replay' = [replay EXCEPT !.set = LastSet(@, u)]
    \/ ParamReturn /\ UNCHANGED replay
    \/ \E P \in PSet, convertible \in BOOLEAN : CamStart(P, convertible)
    \/ CamLock
    \/ \E n \in 0..MaxDets : CamDetect(n)
    \/ CamProfile
    \/ \E det \in DetSet : CamLoop(det)
    \/ CamPublish
    \/ CamSend

Spec == Init /\ [][Next]_vars

----------------------------------------------------------------------------
(* SpecLife: the constructor and the destructor *)

\* the read-only parameters the constructor is given
CtorArgs ==
    [ids : SeqsUpTo({1, 2}, MaxList), frames : SeqsUpTo({"marker", "dock"}, MaxList),
     sizes : SeqsUpTo({2}, MaxList), family : {"36h11", "37h12"}, size : {1}]

InitLife ==
    /\ life = "new"
    /\ args \in CtorArgs
    /\ res = NoRes
    /\ td = td_create
    /\ max_hamming = declared.max_hamming
    /\ profile = declared.profile
    /\ z_up = declared.z_up
    /\ enabled = declared.enabled
    /\ tag_edge_size = 0
    /\ tag_frames = EmptyMap
    /\ tag_sizes = EmptyMap
    /\ Threads0

NextLife ==
    \/ CtorInit
    \/ CtorDeclare
    \/ CtorFrames
    \/ CtorSizes
    \/ CtorFamily
    \/ Destroy

SpecLife == InitLife /\ [][NextLife]_vars

----------------------------------------------------------------------------
(* SpecCfg: onParameter called with a vector of parameters, then called again *)
(* with the same vector. replay.start keeps the configuration before the      *)
(* first call, replay.first the configuration the first call left.            *)

AllUpdates ==
    UpdatesOf(Range(Recognized)) \cup {Unrecognized}
        \cup IllTyped({"detector.blur", "z_up"})

\* a configuration with every field off its declared default
undeclared ==
    [td |-> [nthreads |-> 2, quad_decimate |-> 4, quad_sigma |-> 3, refine_edges |-> FALSE,
             decode_sharpening |-> 2, debug |-> TRUE],
     max_hamming |-> 1, profile |-> TRUE, z_up |-> FALSE, enabled |-> TRUE]

InitCfg ==
    /\ life = "running"
    /\ args = [ids |-> <<>>, frames |-> <<>>, sizes |-> <<>>, family |-> "36h11", size |-> 1]
    /\ res = [NoRes EXCEPT !.td = "live", !.tf = "live"]
    /\ \E c \in {declared, undeclared} :
          /\ td = c.td
          /\ max_hamming = c.max_hamming
          /\ profile = c.profile
          /\ z_up = c.z_up
          /\ enabled = c.enabled
          /\ \E b \in SeqsUpTo(AllUpdates, MaxBatch) :
                replay = [batch |-> b, rest |-> b, round |-> 0, first |-> c, start |-> c]
    /\ tag_edge_size = 1
    /\ tag_frames = EmptyMap
    /\ tag_sizes = EmptyMap
    /\ mutex = "free"
    /\ par = [pc |-> "idle", result |-> "none"]
    /\ cam = IdleCam
    /\ Pinv = NoPinv
    /\ detections = [size |-> 0]
    /\ msg_detections = <<>>
    /\ tfs = <<>>
    /\ hist = NoHist
    /\ out = NoOut

\* onParameter is called with the vector replay.batch, at most twice
CfgEnter ==
    /\ replay.round < 2
    /\ ParamEnter
    /\ replay' = [replay EXCEPT !.rest = replay.batch]

CfgLock == ParamLock /\ UNCHANGED replay

\* the loop takes the next parameter of the vector; a call left by an exception
\* is over as well
CfgStep ==
    /\ replay.rest # <<>>
    /\ ParamStep(Head(replay.rest))
    /\ replay' = IF onParameterThrows(Head(replay.rest))
                   THEN [replay EXCEPT !.rest = <<>>, !.round = @ + 1, !.first = Cfg]
                   ELSE [replay EXCEPT !.rest = Tail(@)]

\* the vector is exhausted. replay.first keeps what the first call left.
CfgReturn ==
    /\ replay.rest = <<>>
    /\ ParamReturn
    /\ replay' = [replay EXCEPT !.round = @ + 1,
                                !.first = IF replay.round = 0 THEN Cfg ELSE @]

NextCfg ==
    \/ CfgEnter
    \/ CfgLock
    \/ CfgStep
    \/ CfgReturn

SpecCfg == InitCfg /\ [][NextCfg]_vars

----------------------------------------------------------------------------
(* SpecFlags: onParameter called, at most twice, with a vector that names     *)
(* only max_hamming, profile, z_up and enabled, while frames in which the     *)
(* detector finds no tag are processed                                        *)

FlagUpdates == UpdatesOf(AtomicKeys)

InitFlags ==
    /\ life = "running"
    /\ args = [ids |-> <<>>, frames |-> <<>>, sizes |-> <<>>, family |-> "36h11", size |-> 1]
    /\ res = [NoRes EXCEPT !.td = "live", !.tf = "live"]
    /\ \E c \in {declared, undeclared} :
          /\ td = c.td
          /\ max_hamming = c.max_hamming
          /\ profile = c.profile
          /\ z_up = c.z_up
          /\ enabled = c.enabled
          /\ \E b \in SeqsUpTo(FlagUpdates, MaxBatch) :
                replay = [batch |-> b, rest |-> b, round |-> 0, first |-> c, start |-> c]
    /\ tag_edge_size = 1
    /\ tag_frames = EmptyMap
    /\ tag_sizes = EmptyMap
    /\ mutex = "free"
    /\ par = [pc |-> "idle", result |-> "none"]
    /\ cam = IdleCam
    /\ Pinv = NoPinv
    /\ detections = [size |-> 0]
    /\ msg_detections = <<>>
    /\ tfs = <<>>
    /\ hist = NoHist
    /\ out = NoOut

NextFlags ==
    \/ CfgEnter
    \/ CfgLock
    \/ CfgStep
    \/ CfgReturn
    \/ \E P \in PSet, convertible \in BOOLEAN : CamStart(P, convertible)
    \/ CamLock
    \/ CamDetect(0)
    \/ CamProfile
    \/ CamPublish
    \/ CamSend

SpecFlags == InitFlags /\ [][NextFlags]_vars

----------------------------------------------------------------------------
(* SpecPose: getPose called for one detection, once with z_up and once        *)
(* without. msg_detections holds the detection, tfs the poses in the order    *)
(* of the calls and hist.used the z_up and size of each call.                 *)

\* camera matrices (the left 3x3 block of P), all invertible
KSet ==
    {Identity3,
     <<<<2, 0, 1>>, <<0, 2, 1>>, <<0, 0, 1>>>>,
     <<<<1, 0, 2>>, <<0, 1, 0>>, <<0, 0, 1>>>>}

\* homographies whose first two columns are along an axis or have a whole
\* length: of equal lengths, and of the lengths 1 and 3, 3 and 1, 5 and 5
HSet ==
    {Identity3,
     <<<<1, 0, 2>>, <<0, 3, 4>>, <<0, 0, 2>>>>,
     <<<<0, -2, 1>>, <<2, 0, 1>>, <<0, 0, 1>>>>,
     <<<<3, -4, 0>>, <<4, 3, 0>>, <<0, 0, 1>>>>,
     <<<<3, 0, 1>>, <<0, 1, 2>>, <<0, 0, 1>>>>}

InitPose ==
    /\ \E a \in RunArgs : Constructed(a)
    /\ mutex = "free"
    /\ par = [pc |-> "idle", result |-> "none"]
    /\ cam = [IdleCam EXCEPT !.pc = "loop", !.sawEnabled = TRUE, !.detected = TRUE]
    /\ \E K \in KSet : Pinv = Inverse3(K)
    /\ detections = [size |-> 1]
    /\ \E H \in HSet : msg_detections = <<msg_detection(Det(1, 0, H))>>
    /\ tfs = <<>>
    /\ hist = NoHist
    /\ out = NoOut
    /\ replay = [set |-> StartupSet]

\* line 268: getPose for the detection, with zup for z_up; each value once
PoseCall(zup) ==
    /\ \A i \in 1..Len(hist.used) : hist.used[i].z_up # zup
    /\ LET det == Det(msg_detections[1].id, msg_detections[1].hamming,
                      msg_detections[1].homography)
       IN  /\ tfs' = Append(tfs, [child_frame_id |-> child_frame_id(det),
                                  transform |-> getPose(det.H, Pinv, edge_size(det), zup)])
           /\ hist' = [hist EXCEPT !.used = Append(@, [mh |-> max_hamming, z_up |-> zup,
                                                       size |-> edge_size(det)])]
    /\ UNCHANGED <<lifevars, cfgvars, tagvars, mutex, par, cam, Pinv, detections,
                   msg_detections, out, replay>>

NextPose == \E zup \in BOOLEAN : PoseCall(zup)

SpecPose == InitPose /\ [][NextPose]_vars

----------------------------------------------------------------------------
(* The claims *)

\* C1: a write to a field of *td (the loop of onParameter, which runs with the
\* mutex held) never happens while apriltag_detector_detect is in progress.
C1_MutualExclusion == ~(cam.pc = "detecting" /\ par.pc = "loop")

\* detection is in progress and onParameter waits for the mutex
C1_Witness == cam.pc = "detecting" /\ par.pc = "lock"

\* C2: a frame that finds enabled false when it starts yields no detection
\* record and no pose, never invokes the detector and publishes nothing.
C2_DisabledShortCircuit ==
    (cam.pc # "idle" /\ ~cam.sawEnabled) =>
        /\ cam.pc = "done"
        /\ ~cam.detected
        /\ msg_detections = <<>>
        /\ tfs = <<>>
        /\ out = NoOut

\* a frame was dropped because enabled was false, and enabled was set afterwards
C2_Witness == cam.pc = "done" /\ ~cam.sawEnabled /\ cam.outcome = "disabled" /\ enabled

\* C3: when tag_frames is not empty every detection record has an id in it, and
\* no detection record has a hamming distance above the max_hamming its
\* iteration read.
C3_FilterCorrectness ==
    /\ Len(hist.used) = Len(msg_detections)
    /\ \A j \in 1..Len(msg_detections) :
          /\ DOMAIN tag_frames # {} => msg_detections[j].id \in DOMAIN tag_frames
          /\ msg_detections[j].hamming <= hist.used[j].mh

\* with an allow-list, a frame of two detections emitted the one record that
\* passed, a record with a corrected bit
C3_Witness ==
    /\ cam.outcome = "emitted"
    /\ DOMAIN tag_frames # {}
    /\ detections.size = 2
    /\ Len(msg_detections) = 1
    /\ msg_detections[1].hamming = 1

\* C4: the detection batch and the transform batch of a frame have the same
\* number of entries, the number of raw detections that passed the allow-list
\* filter and the hamming filter.
C4_BatchCounts ==
    out.det > 0 => Len(msg_detections) = hist.pass /\ Len(tfs) = hist.pass

\* a frame of two detections of which one passed was emitted
C4_Witness ==
    /\ cam.outcome = "emitted"
    /\ detections.size = 2
    /\ hist.pass = 1
    /\ Len(tfs) = 1

\* C5: the child frame of a pose is the configured name of the detection's id
\* when tag_frames has one, and <family>:<id> otherwise.
C5_NameResolution ==
    /\ Len(tfs) = Len(msg_detections)
    /\ \A j \in 1..Len(tfs) :
          LET d == msg_detections[j]
          IN  tfs[j].child_frame_id =
                 IF d.id \in DOMAIN tag_frames THEN tag_frames[d.id]
                 ELSE d.family \o ":" \o ToString(d.id)

\* a frame emitted a pose under the generic name of marker 2
C5_Witness ==
    /\ cam.outcome = "emitted"
    /\ \E j \in 1..Len(tfs) : tfs[j].child_frame_id = "tag36h11:2"

\* C6: a frame that found enabled set and whose detection returned has, when
\* onCamera returns, published exactly one detection batch and one transform
\* batch, also when no detection passed the filters.
C6_OneBatchEach ==
    /\ out.det <= 1 /\ out.tf <= 1
    /\ (cam.pc = "done" /\ cam.detected) => out = [det |-> 1, tf |-> 1]

\* the detector returned detections, none passed, and both batches were published
C6_Witness ==
    /\ cam.pc = "done"
    /\ cam.detected
    /\ detections.size > 0
    /\ msg_detections = <<>>
    /\ out = [det |-> 1, tf |-> 1]

\* the homography of record j gives T = Pinv * H a zero first or second column
ZeroColumn(j) ==
    LET T == MatMul(Pinv.num, msg_detections[j].homography)
    IN  Col(T, 1) = <<0, 0, 0>> \/ Col(T, 2) = <<0, 0, 0>>

\* C7: a frame with a failure (a singular 3x3 block of the projection matrix,
\* an error of the conversion or detection, a homography with a zero column of
\* T) publishes neither batch, and no frame publishes one batch without the other.
C7_FailureEmitsNothing ==
    cam.pc = "done" =>
        /\ out.det = out.tf
        /\ (\/ cam.singular
            \/ cam.outcome = "threw"
            \/ \E j \in 1..Len(msg_detections) : ZeroColumn(j)) => out = NoOut

\* C8 as stated: a constructed node has as many frames and as many sizes as ids.
C8_AnyMismatchFails ==
    life \in {"running", "destroyed"} =>
        /\ Len(args.frames) = Len(args.ids)
        /\ Len(args.sizes) = Len(args.ids)

\* C8, amended: construction fails whenever the name list is not empty and its
\* length differs from the id list's, or the size list is not empty and its
\* length differs from the id list's.
C8_NonEmptyMismatchFails ==
    life \in {"running", "destroyed"} =>
        /\ Len(args.frames) \in {0, Len(args.ids)}
        /\ Len(args.sizes) \in {0, Len(args.ids)}

\* construction failed on the sizes: the frames fit, the family is supported
C8_Witness ==
    /\ life = "failed"
    /\ Len(args.frames) = Len(args.ids)
    /\ Len(args.sizes) \notin {0, Len(args.ids)}
    /\ args.family \in tag_create

\* C9: when the node's life is over, by the destructor or by a constructor that
\* threw, the detector and the family are not live any more, and neither was
\* released twice.
C9_ReleasedOnce ==
    life \in {"failed", "destroyed"} =>
        /\ res.td # "live" /\ res.tf # "live"
        /\ res.td_frees <= 1 /\ res.tf_frees <= 1

\* C10: when onParameter has returned from its second call with the same
\* vector, the configuration is what the first call left.
C10_Idempotent == replay.round = 2 => Cfg = replay.first

\* the second call returned for a vector that sets one detector field twice,
\* to different values
C10_Witness ==
    /\ replay.round = 2
    /\ Len(replay.batch) = 2
    /\ replay.batch[1].name = replay.batch[2].name
    /\ replay.batch[1].name \in DetectorKeys
    /\ replay.batch[1].value # replay.batch[2].value

----------------------------------------------------------------------------
(* C11, C12: a vector of parameters against its parameters one by one *)

\* the orders of the vector b
Perms(b) ==
    {p \in [1..Len(b) -> Range(b)] :
        \E f \in [1..Len(b) -> 1..Len(b)] :
            /\ \A i, j \in 1..Len(b) : i # j => f[i] # f[j]
            /\ \A i \in 1..Len(b) : p[i] = b[f[i]]}

\* The configuration after onParameter was called once for each parameter of
\* b, in the order of b, from the configuration c. The call for a parameter
\* whose value cannot be assigned leaves by the exception with the mutex
\* locked, and no later call gets past line 284.
RECURSIVE ApplyEach(_, _)
ApplyEach(c, b) ==
    IF b = <<>> \/ onParameterThrows(Head(b)) THEN c
    ELSE ApplyEach(onParameterBody(c, Head(b)), Tail(b))

DistinctNames(b) == \A i, j \in 1..Len(b) : i # j => b[i].name # b[j].name

Assignable(b) == \A i \in 1..Len(b) : ~onParameterThrows(b[i])

IsRecognized(u) == u.name \in Range(Recognized)

\* C12: every call of onParameter that is over reported success, and the
\* parameters whose name is none of the ten keys changed nothing: the call left
\* what the vector without them leaves, and the maps and the default size are
\* untouched.
C12_SuccessAndIgnore ==
    /\ (par.pc = "idle" /\ par.result # "none") => par.result = "successful"
    /\ replay.round >= 1 =>
          replay.first = ApplyEach(replay.start, SelectSeq(replay.batch, IsRecognized))
    /\ tag_frames = EmptyMap /\ tag_sizes = EmptyMap /\ tag_edge_size = 1

----------------------------------------------------------------------------
(* C13: the detector's fields during apriltag_detector_detect *)

\* the detector's fields are the values last given to their parameters
DetectorAsLastSet ==
    /\ td.nthreads = replay.set["detector.threads"]
    /\ td.quad_decimate = replay.set["detector.decimate"]
    /\ td.quad_sigma = replay.set["detector.blur"]
    /\ td.refine_edges = replay.set["detector.refine"]
    /\ td.decode_sharpening = replay.set["detector.sharpening"]
    /\ td.debug = replay.set["detector.debug"]

\* C13: when apriltag_detector_detect is entered every field of the detector
\* has the value of the last update to it that completed before (the startup
\* value if there was none), and no field changes until the detector returns.
C13_DetectorStable ==
    [][/\ cam'.pc = "detecting" => DetectorAsLastSet'
       /\ cam.pc = "detecting" => td' = td]_vars

\* the detector runs with a field that a completed update set, while another
\* call of onParameter waits for the mutex
C13_Witness ==
    /\ cam.pc = "detecting"
    /\ td.nthreads = 2
    /\ declared.td.nthreads # 2
    /\ par.pc = "lock"

----------------------------------------------------------------------------
(* C14: a vector of onParameter that names only the four atomics *)

flagvars == <<max_hamming, profile, z_up, enabled>>

\* C14 as stated: a call of onParameter whose vector names only atomics never
\* waits for a detection in progress, and no frame waits for it to enter the
\* detector.
C14_FlagsNeverWait ==
    /\ ~(par.pc = "lock" /\ mutex = "cam")
    /\ ~(cam.pc = "lock" /\ mutex = "par")

\* C14, amended: a call of onParameter whose vector names only atomics takes
\* the mutex as every other call does: an atomic is written only with the mutex
\* held by onParameter, never while a detection is in progress.
C14_FlagsUnderMutex ==
    [][flagvars' # flagvars => (mutex = "par" /\ cam.pc # "detecting")]_vars

\* a call whose vector names only atomics waits for the detection in progress
C14_Witness ==
    /\ par.pc = "lock"
    /\ mutex = "cam"
    /\ cam.pc = "detecting"
    /\ replay.batch # <<>>
    /\ \A i \in 1..Len(replay.batch) : replay.batch[i].name \in AtomicKeys

----------------------------------------------------------------------------
(* C15: the atomics one frame reads *)

\* C15: the detections of one emitted frame were all filtered against the
\* same max_hamming and posed with the same z_up.
C15_OneValuePerFrame ==
    cam.outcome = "emitted" =>
        \A i, j \in 1..Len(hist.used) :
            /\ hist.used[i].mh = hist.used[j].mh
            /\ hist.used[i].z_up = hist.used[j].z_up

----------------------------------------------------------------------------
(* C16, C17: the pose of one detection *)

\* T = Pinv * H of the detection in msg_detections, as numerator and denominator
PoseT == [num |-> MatMul(Pinv.num, msg_detections[1].homography), den |-> Pinv.den]

\* The third column of T, divided by the average of the norms of its first and
\* second column, times size / 2. With T = num/den and n0, n1 the norms of
\* num's columns, the average is (n0 + n1) / (2 |den|) and the quotient is
\* col2 * sgn(den) * size / (n0 + n1).
TranslationByAverage(T, size) ==
    LET x == Col(T.num, 3)
        n0 == Sqrt(SqNorm(Col(T.num, 1)))
        n1 == Sqrt(SqNorm(Col(T.num, 2)))
        k == Sgn(T.den) * size
    IN  IF T.den = 0 \/ n0 + n1 = 0 THEN NonFinite
        ELSE Reduce(<<x[1] * k, x[2] * k, x[3] * k>>, n0 + n1)

\* C16: the translation of every pose is the third column of T divided by the
\* average of the norms of T's first and second column, times half the size.
C16_TranslationByAverage ==
    \A i \in 1..Len(tfs) :
        tfs[i].transform.translation = TranslationByAverage(PoseT, hist.used[i].size)

\* C17: the pose with z_up and the pose without, of the same H, Pinv and
\* size, have the same translation and the same column 0 of R, and columns 1
\* and 2 of the one are the negated columns of the other.
C17_ZUpFlipsTwoColumns ==
    Len(tfs) = 2 =>
        LET a == tfs[1].transform
            b == tfs[2].transform
        IN  /\ a.translation = b.translation
            /\ a.rotation[1] = b.rotation[1]
            /\ \A j \in {2, 3} :
                  /\ a.rotation[j].d = b.rotation[j].d
                  /\ \A k \in 1..3 : a.rotation[j].v[k] = 0 - b.rotation[j].v[k]

\* both poses of a detection whose R has no zero column are there, and they
\* differ in column 1 and in column 2
C17_Witness ==
    /\ Len(tfs) = 2
    /\ hist.used[1].z_up # hist.used[2].z_up
    /\ ~Degenerate(tfs[1].transform)
    /\ tfs[1].transform.rotation[2] # tfs[2].transform.rotation[2]
    /\ tfs[1].transform.rotation[3] # tfs[2].transform.rotation[3]
    /\ msg_detections[1].homography # Identity3

----------------------------------------------------------------------------
(* C18: where onCamera holds the mutex *)

\* C18: onCamera holds the mutex exactly while apriltag_detector_detect is
\* in progress: not before it, and not while it profiles, filters, computes
\* poses, publishes or sends.
C18_LockedOnlyWhileDetecting == mutex = "cam" <=> cam.pc = "detecting"

\* onParameter holds the mutex in its loop while the frame is between the
\* first and the second detection of its loop
C18_Witness ==
    /\ cam.pc = "loop"
    /\ cam.i = 1
    /\ detections.size = 2
    /\ par.pc = "loop"
    /\ mutex = "par"

----------------------------------------------------------------------------
(* C19: the size handed to getPose *)

\* the size the constructor's arguments give the tag id: the element of
\* tag.sizes at the place of id in tag.ids, or the parameter size
SizeByArgs(id) ==
    IF args.sizes # <<>> /\ id \in Range(args.ids)
      THEN args.sizes[CHOOSE k \in 1..Len(args.ids) : args.ids[k] = id]
      ELSE args.size

\* C19: every pose of the frame was computed by getPose with the size the
\* constructor's arguments give its tag, and the map of the sizes and the
\* default size are what the constructor made of its arguments, whatever
\* onParameter was called with. The pose is compared for the detection added
\* last: every pose of the frame was the last one when it was added.
C19_EdgeSizeByTag ==
    /\ tag_sizes = sizes_of(args)
    /\ tag_edge_size = args.size
    /\ \A j \in 1..Len(tfs) : hist.used[j].size = SizeByArgs(msg_detections[j].id)
    /\ tfs # <<>> =>
          LET j == Len(tfs)
          IN  tfs[j].transform =
                getPose(msg_detections[j].homography, Pinv,
                        SizeByArgs(msg_detections[j].id), hist.used[j].z_up)

\* a frame was emitted with a pose of the size configured for its tag, not the
\* default one, after a call of onParameter returned
C19_Witness ==
    /\ cam.outcome = "emitted"
    /\ par.result = "successful"
    /\ \E j \in 1..Len(tfs) :
          /\ hist.used[j].size = 2
          /\ tag_edge_size = 1
          /\ ~Degenerate(tfs[j].transform)

----------------------------------------------------------------------------
(* C20: the mutex after the callbacks *)

\* C20: the mutex is free whenever onParameter is not in its loop and no
\* detection is in progress, whichever way the calls before ended.
C20_FreeAfterEveryExit ==
    (par.pc # "loop" /\ cam.pc # "detecting") => mutex = "free"

====
